---- MODULE Spec2Model ----
(***************************************************************************)
(* State machine of the App component of frontend/src/App.jsx: the form,   *)
(* the prediction call issued by handleSubmit, the asset registry it       *)
(* upserts into, the single-row CSV ingestion of handleCsvUpload, the      *)
(* navigation tabs, and the Health Summary / Detailed Table derivations    *)
(* over the registry.                                                      *)
(***************************************************************************)
EXTENDS Integers, Sequences, FiniteSets

\* form, result, loading, error, csvError, assets: the useState cells of App.
\* inflight: the POST /predict calls awaiting their answer, each with the form
\*           its handleSubmit closed over and the payload it sent.
\* reads:    the files whose FileReader read has not ended yet.
\* activePage: the useState cell that selects the page rendered.
\* lastOp:   history variable, what the last step did to the registry or the
\*           form ("appended", "replaced", "replacedSame", "rejected",
\*           "csvLoaded", "csvRejected"), "none" after any other step.
\* lastScored: history variable, for each machine id the reading of the last
\*           submission for that id whose call resolved, and the body it got.
VARIABLES form, result, loading, error, csvError, assets, inflight, reads, lastOp,
          activePage, lastScored

vars == <<form, result, loading, error, csvError, assets, inflight, reads, lastOp,
          activePage, lastScored>>

(***************************************************************************)
(* Bounds of the model.  None of them is binding on the code as written:   *)
(* they stop runs of altered definitions that would grow without limit.    *)
(***************************************************************************)
MaxAssets == 4

MaxInFlight == 2

MaxReads == 1

(***************************************************************************)
(* JavaScript values.  A number is an exact rational n/d (d > 0, lowest    *)
(* terms), NaN, or +/-Infinity.  null and undefined are the two sentinel   *)
(* strings below; no cell of any table used here is spelled like them.     *)
(***************************************************************************)
NULL == "<null>"

UNDEFINED == "<undefined>"

Abs(x) == IF x < 0 THEN 0 - x ELSE x

RECURSIVE Gcd(_, _)
Gcd(a, b) == IF b = 0 THEN a ELSE Gcd(b, a % b)

Ratio(n, d) ==
    LET s == IF d < 0 THEN 0 - 1 ELSE 1
        g == Gcd(Abs(n), Abs(d))
    IN  [kind |-> "finite", n |-> (s * n) \div g, d |-> (s * d) \div g]

Num(n) == [kind |-> "finite", n |-> n, d |-> 1]

NaN == [kind |-> "NaN", n |-> 0, d |-> 1]

PosInfinity == [kind |-> "Infinity", n |-> 1, d |-> 1]

NegInfinity == [kind |-> "Infinity", n |-> 0 - 1, d |-> 1]

IsNaN(x) == x.kind = "NaN"

IsFinite(x) == x.kind = "finite"

Sign(x) == IF x.n > 0 THEN 1 ELSE IF x.n < 0 THEN 0 - 1 ELSE 0

\* a * b
JsMul(a, b) ==
    IF IsNaN(a) \/ IsNaN(b) THEN NaN
    ELSE IF IsFinite(a) /\ IsFinite(b) THEN Ratio(a.n * b.n, a.d * b.d)
    ELSE IF Sign(a) * Sign(b) = 0 THEN NaN
    ELSE IF Sign(a) * Sign(b) > 0 THEN PosInfinity ELSE NegInfinity

\* a - b
JsSub(a, b) ==
    IF IsNaN(a) \/ IsNaN(b) THEN NaN
    ELSE IF IsFinite(a) /\ IsFinite(b) THEN Ratio(a.n * b.d - b.n * a.d, a.d * b.d)
    ELSE IF IsFinite(b) THEN a
    ELSE IF IsFinite(a) THEN (IF Sign(b) > 0 THEN NegInfinity ELSE PosInfinity)
    ELSE IF Sign(a) = Sign(b) THEN NaN ELSE a

\* altered: a division by zero gives 0
JsDivZeroGivesZero(a, b) ==
    IF IsNaN(a) \/ IsNaN(b) THEN NaN
    ELSE IF IsFinite(a) /\ IsFinite(b) THEN
        IF b.n = 0 THEN Num(0) ELSE Ratio(a.n * b.d, a.d * b.n)
    ELSE IF IsFinite(b) THEN
        (IF Sign(a) * (IF Sign(b) < 0 THEN 0 - 1 ELSE 1) > 0 THEN PosInfinity ELSE NegInfinity)
    ELSE IF IsFinite(a) THEN Num(0)
    ELSE NaN

\* a / b (the sign of a zero is not tracked: no operand used here is negative)
JsDiv(a, b) ==
    IF IsNaN(a) \/ IsNaN(b) THEN NaN
    ELSE IF IsFinite(a) /\ IsFinite(b) THEN
        IF b.n = 0
        THEN (IF a.n = 0 THEN NaN ELSE IF a.n > 0 THEN PosInfinity ELSE NegInfinity)
        ELSE Ratio(a.n * b.d, a.d * b.n)
    ELSE IF IsFinite(b) THEN
        (IF Sign(a) * (IF Sign(b) < 0 THEN 0 - 1 ELSE 1) > 0 THEN PosInfinity ELSE NegInfinity)
    ELSE IF IsFinite(a) THEN Num(0)
    ELSE NaN

(***************************************************************************)
(* Arrays                                                                  *)
(***************************************************************************)
RemoveAt(s, i) == [k \in 1..(Len(s) - 1) |-> IF k < i THEN s[k] ELSE s[k + 1]]

InsertAt(s, k, x) ==
    [j \in 1..(Len(s) + 1) |-> IF j < k THEN s[j] ELSE IF j = k THEN x ELSE s[j - 1]]

(***************************************************************************)
(* parseFloat on the strings that occur as field values and table cells:   *)
(* the longest numeric prefix, NaN when there is none (also for null and   *)
(* undefined, which are converted to the strings "null" and "undefined").  *)
(***************************************************************************)
ParseFloat(s) ==
    CASE s = "0"     -> Num(0)
      [] s = "40"    -> Num(40)
      [] s = "42"    -> Num(42)
      [] s = "298"   -> Num(298)
      [] s = "308"   -> Num(308)
      [] s = "1551"  -> Num(1551)
      [] OTHER       -> NaN

(***************************************************************************)
(* Constants of App.jsx                                                    *)
(***************************************************************************)
RISK_ORDER == [Red |-> 3, Yellow |-> 2, Green |-> 1]

InitialForm ==
    [uid |-> "M14860",
     air_temperature_k |-> Num(300),
     process_temperature_k |-> Num(310),
     rotational_speed_rpm |-> Num(1500),
     torque_nm |-> Num(40),
     tool_wear_min |-> Num(5),
     type |-> "H"]

NoResult == [failure_probability |-> NaN, risk_level |-> NULL]

PredictionErrorMessage == "Failed to fetch prediction. Check API connection."

CsvTooShortMessage == "CSV must contain a header and at least one data row."

CsvMapMessage == "Could not map CSV columns. Make sure it contains UDI, Air temperature [K], Process temperature [K], Rotational speed [rpm], Torque [Nm], Tool wear [min], Type."

CsvReadErrorMessage == "Error reading CSV file."

Init ==
    /\ form = InitialForm
    /\ result = NoResult
    /\ loading = FALSE
    /\ error = ""
    /\ csvError = ""
    /\ assets = <<>>
    /\ inflight = <<>>
    /\ reads = <<>>
    /\ lastOp = "none"
    /\ activePage = "single"
    /\ lastScored = <<>>

(***************************************************************************)
(* handleChange: uid and type stay strings, the other fields are parsed.   *)
(* The form, its submit button and the file input are rendered on the page *)
(* "single" only, so their handlers can run on that page only.             *)
(***************************************************************************)
handleChange(name, value) ==
    /\ activePage = "single"
    /\ form' = IF name = "uid" \/ name = "type"
               THEN [form EXCEPT ![name] = value]
               ELSE [form EXCEPT ![name] = ParseFloat(value)]
    /\ lastOp' = "none"
    /\ UNCHANGED <<activePage, lastScored, result, loading, error, csvError, assets, inflight, reads>>

(***************************************************************************)
(* handleSubmit up to the await: the derived features and the payload are  *)
(* computed from the form of the render in which the submit happened, and  *)
(* the call keeps that form (the closure of handleSubmit) until it ends.   *)
(* The submit button is disabled while loading is true.  assetsAtSubmit and *)
(* superseded are history fields: the registry as it was when the call was *)
(* issued, and whether a call issued later for the same id has resolved.   *)
(***************************************************************************)
TypeL(type) == IF type = "L" THEN 1 ELSE 0

TypeM(type) == IF type = "M" THEN 1 ELSE 0

Payload(f) ==
    LET power == JsMul(f.rotational_speed_rpm, f.torque_nm)
        temperature_difference == JsSub(f.process_temperature_k, f.air_temperature_k)
        power_wear == JsMul(power, f.tool_wear_min)
        temperature_power == JsDiv(temperature_difference, power)
    IN  [air_temperature_k |-> f.air_temperature_k,
         process_temperature_k |-> f.process_temperature_k,
         rotational_speed_rpm |-> f.rotational_speed_rpm,
         torque_nm |-> f.torque_nm,
         tool_wear_min |-> f.tool_wear_min,
         power |-> power,
         power_wear |-> power_wear,
         temperature_difference |-> temperature_difference,
         temperature_power |-> temperature_power,
         type_l |-> TypeL(f.type),
         type_m |-> TypeM(f.type),
         type |-> f.type]

\* altered: the button is never disabled
SubmitAlwaysEnabled == TRUE

SubmitEnabled == ~loading

handleSubmit ==
    /\ activePage = "single"
    /\ SubmitEnabled
    /\ Len(inflight) < MaxInFlight
    /\ loading' = TRUE
    /\ error' = ""
    /\ result' = NoResult
    /\ inflight' = Append(inflight, [form |-> form, payload |-> Payload(form),
                                     assetsAtSubmit |-> assets, superseded |-> FALSE])
    /\ lastOp' = "none"
    /\ UNCHANGED <<activePage, lastScored, form, csvError, assets, reads>>

(***************************************************************************)
(* The setAssets updater of handleSubmit: replace in place, or append.     *)
(***************************************************************************)
\* altered: the predicate compares a field the assets do not have (a.uid)
FindIndexNeverMatches(prev, uid) == 0

FindIndex(prev, uid) ==
    IF \E i \in 1..Len(prev) : prev[i].id = uid
    THEN CHOOSE i \in 1..Len(prev) :
             /\ prev[i].id = uid
             /\ \A j \in 1..(i - 1) : prev[j].id # uid
    ELSE 0

UpdatedAsset(f, data) ==
    [id |-> f.uid,
     type |-> f.type,
     torque_nm |-> f.torque_nm,
     air_temperature_k |-> f.air_temperature_k,
     tool_wear_min |-> f.tool_wear_min,
     failure_probability |-> data.failure_probability,
     risk_level |-> data.risk_level]

\* altered: an existing entry is dropped and the new one pushed at the end
UpsertMoveToEnd(prev, f, data) ==
    LET existingIndex == FindIndex(prev, f.uid)
    IN  IF existingIndex # 0
        THEN Append(RemoveAt(prev, existingIndex), UpdatedAsset(f, data))
        ELSE Append(prev, UpdatedAsset(f, data))

\* altered: an existing entry is kept and the new one put in front of it
UpsertKeepsHistory(prev, f, data) ==
    LET existingIndex == FindIndex(prev, f.uid)
    IN  IF existingIndex # 0
        THEN InsertAt(prev, existingIndex, UpdatedAsset(f, data))
        ELSE Append(prev, UpdatedAsset(f, data))

Upsert(prev, f, data) ==
    LET existingIndex == FindIndex(prev, f.uid)
    IN  IF existingIndex # 0
        THEN [prev EXCEPT ![existingIndex] = UpdatedAsset(f, data)]
        ELSE Append(prev, UpdatedAsset(f, data))

\* history: the reading f has been answered with data
Scored(scored, f, data) ==
    [u \in DOMAIN scored \cup {f.uid} |->
         IF u = f.uid THEN [reading |-> f, data |-> data] ELSE scored[u]]

\* history: the calls issued before call i for the same id are superseded
Supersede(calls, i) ==
    [k \in 1..Len(calls) |->
         IF k < i /\ calls[k].form.uid = calls[i].form.uid
         THEN [calls[k] EXCEPT !.superseded = TRUE]
         ELSE calls[k]]

\* altered: the updater reads the form as it is when the call ends
predictResolveReadsCurrentForm(i, data) ==
    /\ i \in 1..Len(inflight)
    /\ Len(Upsert(assets, form, data)) <= MaxAssets
    /\ result' = data
    /\ assets' = Upsert(assets, form, data)
    /\ loading' = FALSE
    /\ inflight' = RemoveAt(Supersede(inflight, i), i)
    /\ lastOp' = IF FindIndex(assets, form.uid) = 0 THEN "appended"
                 ELSE IF assets' = assets THEN "replacedSame" ELSE "replaced"
    /\ lastScored' = IF inflight[i].superseded THEN lastScored
                     ELSE Scored(lastScored, inflight[i].form, data)
    /\ UNCHANGED <<activePage, form, error, csvError, reads>>

\* the call resolves: axios resolves for a 2xx status, resp.data is the body
predictResolve(i, data) ==
    /\ i \in 1..Len(inflight)
    /\ Len(Upsert(assets, inflight[i].form, data)) <= MaxAssets
    /\ result' = data
    /\ assets' = Upsert(assets, inflight[i].form, data)
    /\ loading' = FALSE
    /\ inflight' = RemoveAt(Supersede(inflight, i), i)
    /\ lastOp' = IF FindIndex(assets, inflight[i].form.uid) = 0 THEN "appended"
                 ELSE IF assets' = assets THEN "replacedSame" ELSE "replaced"
    /\ lastScored' = IF inflight[i].superseded THEN lastScored
                     ELSE Scored(lastScored, inflight[i].form, data)
    /\ UNCHANGED <<activePage, form, error, csvError, reads>>

\* altered: the catch branch also stores the reading, without a prediction
predictRejectStoresAsset(i, failure) ==
    /\ i \in 1..Len(inflight)
    /\ Len(Upsert(assets, inflight[i].form, NoResult)) <= MaxAssets
    /\ error' = PredictionErrorMessage
    /\ loading' = FALSE
    /\ inflight' = RemoveAt(inflight, i)
    /\ assets' = Upsert(assets, inflight[i].form, NoResult)
    /\ lastOp' = "rejected"
    /\ UNCHANGED <<activePage, lastScored, form, result, csvError, reads>>

\* altered: no finally block, a failed call leaves loading as it is
predictRejectKeepsLoading(i, failure) ==
    /\ i \in 1..Len(inflight)
    /\ error' = PredictionErrorMessage
    /\ inflight' = RemoveAt(inflight, i)
    /\ lastOp' = "rejected"
    /\ UNCHANGED <<activePage, lastScored, form, result, loading, csvError, assets, reads>>

\* the call rejects: a transport error (no response) or a non-2xx response
predictReject(i, failure) ==
    /\ i \in 1..Len(inflight)
    /\ error' = PredictionErrorMessage
    /\ loading' = FALSE
    /\ inflight' = RemoveAt(inflight, i)
    /\ lastOp' = "rejected"
    /\ UNCHANGED <<activePage, lastScored, form, result, csvError, assets, reads>>

(***************************************************************************)
(* handleCsvUpload.  A file is its lines, each line its comma-separated    *)
(* fields as written (surrounding blanks and quotes included), or cannot   *)
(* be read at all.  handleCsvUpload clears the CSV error and starts the    *)
(* read; reader.onload / reader.onerror run when the read ends.            *)
(***************************************************************************)
Plain(t) == [text |-> t, quoted |-> FALSE, padded |-> FALSE]

Quoted(t) == [text |-> t, quoted |-> TRUE, padded |-> TRUE]

\* v.trim().replace(/^"|"$/g, "")
Clean(cell) == cell.text

CleanLine(line) == [k \in 1..Len(line) |-> Clean(line[k])]

IndexOf(s, x) ==
    IF \E i \in 1..Len(s) : s[i] = x
    THEN CHOOSE i \in 1..Len(s) : s[i] = x /\ \A j \in 1..(i - 1) : s[j] # x
    ELSE 0

Get(header, row, colName) ==
    LET idx == IndexOf(header, colName)
    IN  IF idx = 0 THEN NULL
        ELSE IF idx > Len(row) THEN UNDEFINED
        ELSE row[idx]

Falsy(s) == s \in {NULL, UNDEFINED, ""}

\* a || b
OrElse(a, b) == IF Falsy(a) THEN b ELSE a

CsvUid(header, row) ==
    OrElse(OrElse(Get(header, row, "UDI"), Get(header, row, "uid")), Get(header, row, "UID"))

\* altered: another default when the Type column is absent
CsvTypeRawDefaultsToL(header, row) == OrElse(Get(header, row, "Type"), "L")

CsvTypeRaw(header, row) == OrElse(Get(header, row, "Type"), "H")

\* altered: the value of the Type column is taken as it is
NormaliseTypeKeepsRaw(typeRaw) == typeRaw

\* Normalise Type to H / L / M
NormaliseType(typeRaw) == IF typeRaw \in {"L", "M", "H"} THEN typeRaw ELSE "H"

CsvFields(header, row) ==
    [uid |-> CsvUid(header, row),
     air_temperature_k |-> ParseFloat(Get(header, row, "Air temperature [K]")),
     process_temperature_k |-> ParseFloat(Get(header, row, "Process temperature [K]")),
     rotational_speed_rpm |-> ParseFloat(Get(header, row, "Rotational speed [rpm]")),
     torque_nm |-> ParseFloat(Get(header, row, "Torque [Nm]")),
     tool_wear_min |-> ParseFloat(Get(header, row, "Tool wear [min]")),
     type |-> NormaliseType(CsvTypeRaw(header, row))]

\* altered: the torque is left out of the check
CsvUnmappableTorqueUnchecked(c) ==
    \/ Falsy(c.uid)
    \/ IsNaN(c.air_temperature_k)
    \/ IsNaN(c.process_temperature_k)
    \/ IsNaN(c.rotational_speed_rpm)
    \/ IsNaN(c.tool_wear_min)

CsvUnmappable(c) ==
    \/ Falsy(c.uid)
    \/ IsNaN(c.air_temperature_k)
    \/ IsNaN(c.process_temperature_k)
    \/ IsNaN(c.rotational_speed_rpm)
    \/ IsNaN(c.torque_nm)
    \/ IsNaN(c.tool_wear_min)

handleCsvUpload(file) ==
    /\ activePage = "single"
    /\ Len(reads) < MaxReads
    /\ csvError' = ""
    /\ reads' = Append(reads, file)
    /\ lastOp' = "none"
    /\ UNCHANGED <<activePage, lastScored, form, result, loading, error, assets, inflight>>

readerOnload(i) ==
    /\ i \in 1..Len(reads)
    /\ reads[i].readable
    /\ reads' = RemoveAt(reads, i)
    /\ LET lines == reads[i].lines
       IN  IF Len(lines) < 2
           THEN /\ csvError' = CsvTooShortMessage
                /\ lastOp' = "csvRejected"
                /\ UNCHANGED form
           ELSE LET c == CsvFields(CleanLine(lines[1]), CleanLine(lines[2]))
                IN  IF CsvUnmappable(c)
                    THEN /\ csvError' = CsvMapMessage
                         /\ lastOp' = "csvRejected"
                         /\ UNCHANGED form
                    ELSE /\ form' = c
                         /\ lastOp' = "csvLoaded"
                         /\ UNCHANGED csvError
    /\ UNCHANGED <<activePage, lastScored, result, loading, error, assets, inflight>>

readerOnerror(i) ==
    /\ i \in 1..Len(reads)
    /\ ~reads[i].readable
    /\ reads' = RemoveAt(reads, i)
    /\ csvError' = CsvReadErrorMessage
    /\ lastOp' = "csvRejected"
    /\ UNCHANGED <<activePage, lastScored, form, result, loading, error, assets, inflight>>

(***************************************************************************)
(* The navigation tabs: a click on a tab makes its page the active one.    *)
(***************************************************************************)
Pages == {"single", "kpi", "summary", "table"}

\* altered: the registry lives in the page left and is lost with it
setActivePageDropsRegistry(page) ==
    /\ activePage' = page
    /\ assets' = IF page = activePage THEN assets ELSE <<>>
    /\ lastOp' = "none"
    /\ UNCHANGED <<lastScored, form, result, loading, error, csvError, inflight, reads>>

setActivePage(page) ==
    /\ activePage' = page
    /\ lastOp' = "none"
    /\ UNCHANGED <<lastScored, form, result, loading, error, csvError, assets, inflight, reads>>

(***************************************************************************)
(* HealthSummaryView: the reduce over the registry, started from the three *)
(* fixed keys, and the three rows read from it.                            *)
(***************************************************************************)
RECURSIVE HealthCounts(_)
HealthCounts(as) ==
    IF as = <<>> THEN [Green |-> 0, Yellow |-> 0, Red |-> 0]
    ELSE LET acc == HealthCounts(SubSeq(as, 1, Len(as) - 1))
             key == as[Len(as)].risk_level
         IN  [k \in DOMAIN acc \cup {key} |->
                  IF k = key
                  THEN (IF k \in DOMAIN acc THEN acc[k] ELSE 0) + 1
                  ELSE acc[k]]

HealthSummaryData(as) ==
    LET counts == HealthCounts(as)
    IN  <<[name |-> "Healthy", risk |-> "Green", count |-> counts.Green],
          [name |-> "Monitoring Required", risk |-> "Yellow", count |-> counts.Yellow],
          [name |-> "Critical", risk |-> "Red", count |-> counts.Red]>>

(***************************************************************************)
(* DetailedTableView: [...assets].sort(comparator).  RISK_ORDER of a level *)
(* that is not a key is undefined, the difference is then NaN, and sort    *)
(* reads a NaN as +0.  With a consistent comparator the sort is stable;    *)
(* with this one, which is not consistent once a level outside RISK_ORDER  *)
(* stands among two different levels, the order is whatever the engine's   *)
(* algorithm leaves.  For arrays as short as the registries here the       *)
(* engines sort by insertion: V8 finds the initial run (reversing a        *)
(* strictly descending one) and inserts the rest by binary search, others  *)
(* insert linearly from the right.  SortedAssets holds both outcomes.      *)
(***************************************************************************)
Comparator(a, b) ==
    IF a.risk_level \in DOMAIN RISK_ORDER /\ b.risk_level \in DOMAIN RISK_ORDER
    THEN RISK_ORDER[b.risk_level] - RISK_ORDER[a.risk_level]
    ELSE 0

RECURSIVE LinearInsertPos(_, _, _)
LinearInsertPos(sorted, x, j) ==
    IF j >= 1 /\ Comparator(sorted[j], x) > 0
    THEN LinearInsertPos(sorted, x, j - 1)
    ELSE j + 1

RECURSIVE InsertionSort(_)
InsertionSort(as) ==
    IF Len(as) <= 1 THEN as
    ELSE LET sorted == InsertionSort(SubSeq(as, 1, Len(as) - 1))
             x == as[Len(as)]
         IN  InsertAt(sorted, LinearInsertPos(sorted, x, Len(sorted)), x)

Reverse(s) == [k \in 1..Len(s) |-> s[Len(s) + 1 - k]]

\* the length of the run that starts the array; idx is the next element to look at
RECURSIVE RunLength(_, _, _)
RunLength(as, descending, idx) ==
    IF idx > Len(as) THEN Len(as)
    ELSE LET order == Comparator(as[idx], as[idx - 1])
         IN  IF (descending /\ order >= 0) \/ (~descending /\ order < 0)
             THEN idx - 1
             ELSE RunLength(as, descending, idx + 1)

\* the number of elements of sorted[left+1..right] that stay before the pivot
RECURSIVE BinaryInsertPos(_, _, _, _)
BinaryInsertPos(sorted, pivot, left, right) ==
    IF left < right
    THEN LET mid == left + ((right - left) \div 2)
         IN  IF Comparator(pivot, sorted[mid + 1]) < 0
             THEN BinaryInsertPos(sorted, pivot, left, mid)
             ELSE BinaryInsertPos(sorted, pivot, mid + 1, right)
    ELSE left

RECURSIVE BinaryInsertionSort(_, _)
BinaryInsertionSort(sorted, rest) ==
    IF rest = <<>> THEN sorted
    ELSE BinaryInsertionSort(
             InsertAt(sorted, BinaryInsertPos(sorted, Head(rest), 0, Len(sorted)) + 1, Head(rest)),
             Tail(rest))

RunThenBinaryInsertionSort(as) ==
    IF Len(as) < 2 THEN as
    ELSE LET descending == Comparator(as[2], as[1]) < 0
             run == RunLength(as, descending, 3)
             prefix == SubSeq(as, 1, run)
         IN  BinaryInsertionSort(IF descending THEN Reverse(prefix) ELSE prefix,
                                 SubSeq(as, run + 1, Len(as)))

SortedAssets(as) == {RunThenBinaryInsertionSort(as), InsertionSort(as)}

(***************************************************************************)
(* Inputs: form edits, files, and what the scoring endpoint answers.       *)
(***************************************************************************)
HeaderAI4I ==
    <<"UDI", "Product ID", "Type", "Air temperature [K]", "Process temperature [K]",
      "Rotational speed [rpm]", "Torque [Nm]", "Tool wear [min]">>

RowAI4I == <<"1", "M14860", "M", "298", "308", "1551", "42", "0">>

PlainLine(s) == [k \in 1..Len(s) |-> Plain(s[k])]

QuotedLine(s) == [k \in 1..Len(s) |-> Quoted(s[k])]

TextFile(lines) == [readable |-> TRUE, lines |-> lines]

\* header and row without the column named col
FileWithout(col) ==
    LET i == IndexOf(HeaderAI4I, col)
    IN  TextFile(<<PlainLine(RemoveAt(HeaderAI4I, i)), PlainLine(RemoveAt(RowAI4I, i))>>)

\* the row's value in column col replaced by v
FileWith(col, v) ==
    LET i == IndexOf(HeaderAI4I, col)
    IN  TextFile(<<PlainLine(HeaderAI4I), PlainLine([RowAI4I EXCEPT ![i] = v])>>)

FileOk == TextFile(<<PlainLine(HeaderAI4I), QuotedLine(RowAI4I)>>)

FileHeaderOnly == TextFile(<<PlainLine(HeaderAI4I)>>)

FileTypeX ==
    TextFile(<<PlainLine(HeaderAI4I),
               PlainLine(<<"1", "M14860", "X", "298", "308", "1551", "40", "0">>)>>)

FileUnreadable == [readable |-> FALSE, lines |-> <<>>]

Data(percent, risk) == [failure_probability |-> Ratio(percent, 100), risk_level |-> risk]

Failures == {"transport", "http500"}

NextOver(Changes, Files, Datas) ==
    \/ \E ev \in Changes : handleChange(ev[1], ev[2])
    \/ handleSubmit
    \/ \E i \in 1..Len(inflight) : \E data \in Datas : predictResolve(i, data)
    \/ \E i \in 1..Len(inflight) : \E failure \in Failures : predictReject(i, failure)
    \/ \E file \in Files : handleCsvUpload(file)
    \/ \E i \in 1..Len(reads) : readerOnload(i)
    \/ \E i \in 1..Len(reads) : readerOnerror(i)

(***************************************************************************)
(* Spec: the registry under submissions for three machine ids.             *)
(***************************************************************************)
Next ==
    NextOver({<<"uid", "M2">>, <<"torque_nm", "0">>},
             {FileOk, FileUnreadable},
             {Data(5, "Green"), Data(80, "Red")})

Spec == Init /\ [][Next]_vars

(***************************************************************************)
(* SpecViews: registries holding every risk level the endpoint may answer, *)
(* one of them outside Green / Yellow / Red.                               *)
(***************************************************************************)
NextViews ==
    NextOver({<<"uid", "M2">>, <<"uid", "M3">>},
             {FileWithout("Torque [Nm]"), FileUnreadable},
             {Data(5, "Green"), Data(37, "Yellow"), Data(80, "Red"), Data(37, "Orange")})

SpecViews == Init /\ [][NextViews]_vars

(***************************************************************************)
(* SpecCsv: tabular ingestion over well-formed and ill-formed tables.      *)
(***************************************************************************)
CsvFiles ==
    {FileOk, FileHeaderOnly, FileUnreadable, FileTypeX,
     FileWithout("UDI"), FileWithout("Torque [Nm]"), FileWithout("Type"),
     FileWith("Rotational speed [rpm]", "abc")}

NextCsv == NextOver({<<"type", "L">>}, CsvFiles, {Data(5, "Green")})

SpecCsv == Init /\ [][NextCsv]_vars

(***************************************************************************)
(* SpecNav: the same handlers with the navigation tabs, the endpoint       *)
(* answering well-formed and ill-formed bodies.                            *)
(***************************************************************************)
NextNav ==
    \/ NextOver({<<"uid", "M2">>},
                {FileOk, FileUnreadable},
                {Data(5, "Green"), Data(37, "Orange")})
    \/ \E page \in Pages : setActivePage(page)

SpecNav == Init /\ [][NextNav]_vars

(***************************************************************************)
(* SpecLive: the transport layer does answer every call in the end, by a   *)
(* response or by an error.  Nothing else is assumed to happen.            *)
(***************************************************************************)
LiveDatas == {Data(5, "Green"), Data(80, "Red")}

NextLive == NextOver({<<"uid", "M2">>}, {FileOk, FileUnreadable}, LiveDatas)

TransportAnswers ==
    \E i \in 1..Len(inflight) :
        \/ \E data \in LiveDatas : predictResolve(i, data)
        \/ \E failure \in Failures : predictReject(i, failure)

SpecLive == Init /\ [][NextLive]_vars /\ WF_vars(TransportAnswers)

(***************************************************************************)
(* Properties of the registry (checked under Spec)                         *)
(***************************************************************************)
\* the step in which a prediction call ends without the error being set
CallSucceeds == loading /\ ~loading' /\ error' = ""

\* the step in which a prediction call ends with the error being set
CallFails == loading /\ error = "" /\ error' = PredictionErrorMessage

\* the Asset a reading and a prediction result make up
AssetOf(f, data) ==
    [id |-> f.uid, type |-> f.type, torque_nm |-> f.torque_nm,
     air_temperature_k |-> f.air_temperature_k, tool_wear_min |-> f.tool_wear_min,
     failure_probability |-> data.failure_probability, risk_level |-> data.risk_level]

\* C1: in every reachable state no two Assets of the registry have the same id.
NoTwoAssetsShareAnId ==
    \A i \in 1..Len(assets) : \A j \in 1..Len(assets) :
        i # j => assets[i].id # assets[j].id

\* three machines are registered and one of them has just been submitted again
WitnessThreeIdsAfterReplace == Len(assets) = 3 /\ lastOp = "replaced"

\* C2: when a prediction call fails (transport error or non-success response),
\* the registry after the completion is the registry as it was before the
\* submission, and the call is gone without another one being issued for it.
FailedCallLeavesRegistry ==
    [][CallFails =>
          \E i \in 1..Len(inflight) :
              /\ inflight' = RemoveAt(inflight, i)
              /\ assets' = inflight[i].assetsAtSubmit
              /\ assets' = assets]_vars

\* a call has just failed while the registry held Assets, one of them for the
\* id that was submitted
WitnessFailedCallOnRegisteredId ==
    /\ lastOp = "rejected"
    /\ error = PredictionErrorMessage
    /\ \E k \in 1..Len(assets) : assets[k].id = form.uid

\* C3: a successful submission for an id already in the registry replaces that
\* Asset at its index and leaves every other Asset and the length unchanged; for
\* an id not in the registry it appends exactly one Asset at the end.
UpsertReplacesInPlaceOrAppends ==
    [][CallSucceeds =>
          \E i \in 1..Len(inflight) :
              /\ inflight' = RemoveAt(inflight, i)
              /\ LET f == inflight[i].form
                     new == AssetOf(f, result')
                 IN  IF \E k \in 1..Len(assets) : assets[k].id = f.uid
                     THEN /\ Len(assets') = Len(assets)
                          /\ \A k \in 1..Len(assets) :
                                 assets'[k] = IF assets[k].id = f.uid THEN new ELSE assets[k]
                     ELSE assets' = Append(assets, new)]_vars

\* the middle one of three Assets has just been replaced: it alone carries the
\* risk level of the result that has just arrived
WitnessMiddleAssetReplaced ==
    /\ lastOp = "replaced"
    /\ Len(assets) = 3
    /\ assets[2].risk_level = result.risk_level
    /\ assets[1].risk_level # result.risk_level
    /\ assets[3].risk_level # result.risk_level

\* C4: a successful submission whose reading and prediction result are those
\* the registry already holds for that id (the same upsert applied again)
\* leaves the registry, length and content, as it was.
RepeatedUpsertChangesNothing ==
    [][(/\ CallSucceeds
        /\ \E i \in 1..Len(inflight) :
               /\ inflight' = RemoveAt(inflight, i)
               /\ \E k \in 1..Len(assets) : assets[k] = AssetOf(inflight[i].form, result'))
       => assets' = assets]_vars

\* the same reading has just been submitted again and answered as before
WitnessSameUpsertTwice == lastOp = "replacedSame" /\ Len(assets) >= 2

\* C5: at most one prediction call is outstanding, and while one is, loading
\* is true (which disables the submit button).
AtMostOneCallInFlight ==
    /\ Len(inflight) <= 1
    /\ Len(inflight) = 1 => loading

\* a call is pending for a registered machine while the form already names
\* another one
WitnessCallPendingFormEdited ==
    /\ Len(inflight) = 1
    /\ assets # <<>>
    /\ form.uid # inflight[1].form.uid

(***************************************************************************)
(* Properties of the views (checked under SpecViews)                       *)
(***************************************************************************)
\* C6: for every non-empty registry the Health Summary has exactly the three
\* buckets Green, Yellow, Red, and their counts sum to the number of Assets.
HealthSummaryCountsEveryAsset ==
    assets # <<>> =>
        LET data == HealthSummaryData(assets)
        IN  /\ Len(data) = 3
            /\ <<data[1].risk, data[2].risk, data[3].risk>> = <<"Green", "Yellow", "Red">>
            /\ data[1].count + data[2].count + data[3].count = Len(assets)

Ranked(a) == a.risk_level \in {"Red", "Yellow", "Green"}

Severity(a) ==
    CASE a.risk_level = "Red" -> 3
      [] a.risk_level = "Yellow" -> 2
      [] a.risk_level = "Green" -> 1

PositionIn(out, a) == CHOOSE k \in 1..Len(out) : out[k] = a

SortedDescendingStable(out, as) ==
    /\ Len(out) = Len(as)
    /\ \A k \in 1..Len(as) : \E j \in 1..Len(out) : out[j] = as[k]
    /\ \A i \in 1..Len(out) : \A j \in 1..Len(out) :
           (i < j /\ Ranked(out[i]) /\ Ranked(out[j])) => Severity(out[i]) >= Severity(out[j])
    /\ \A i \in 1..Len(as) : \A j \in 1..Len(as) :
           (i < j /\ as[i].risk_level = as[j].risk_level)
               => PositionIn(out, as[i]) < PositionIn(out, as[j])

\* C7: the Detailed Table is a permutation of the registry in descending
\* severity Red > Yellow > Green, Assets of one risk level in registry order.
DetailedTableSortedStable ==
    assets # <<>> => \A out \in SortedAssets(assets) : SortedDescendingStable(out, assets)

\* what does hold of the two views: the registries whose risk levels are all
\* among Green, Yellow, Red are counted whole and sorted as C6 and C7 say
ViewsOfRankedRegistries ==
    (assets # <<>> /\ \A k \in 1..Len(assets) : Ranked(assets[k])) =>
        /\ HealthSummaryCountsEveryAsset
        /\ DetailedTableSortedStable

(***************************************************************************)
(* Properties of tabular ingestion and the type flags (under SpecCsv)      *)
(***************************************************************************)
\* C8: in every payload sent, type_l and type_m are never both 1, type_l = 1
\* exactly for type "L", type_m = 1 exactly for type "M", both 0 exactly for "H".
PayloadTypeFlagsOneHot ==
    \A k \in 1..Len(inflight) :
        LET p == inflight[k].payload
            t == inflight[k].form.type
        IN  /\ p.type = t
            /\ ~(p.type_l = 1 /\ p.type_m = 1)
            /\ (p.type_l = 1) = (t = "L")
            /\ (p.type_m = 1) = (t = "M")
            /\ (p.type_l = 0 /\ p.type_m = 0) = (t = "H")

\* a payload is in flight for a reading whose type M came from a table
WitnessPayloadWithCsvType ==
    /\ Len(inflight) = 1
    /\ inflight[1].form.uid = "1"
    /\ inflight[1].payload.type_m = 1
    /\ inflight[1].payload.type_l = 0

HeaderOf(file) == [k \in 1..Len(file.lines[1]) |-> file.lines[1][k].text]

HasColumn(file, col) == \E k \in 1..Len(file.lines[1]) : HeaderOf(file)[k] = col

\* the data row's value in the first column labelled col, if there is one
ValueIn(file, col) ==
    LET k == CHOOSE k \in 1..Len(file.lines[1]) :
                 HeaderOf(file)[k] = col /\ \A j \in 1..(k - 1) : HeaderOf(file)[j] # col
    IN  IF Len(file.lines) >= 2 /\ k <= Len(file.lines[2])
        THEN file.lines[2][k].text
        ELSE UNDEFINED

NumericColumns ==
    {"Air temperature [K]", "Process temperature [K]", "Rotational speed [rpm]",
     "Torque [Nm]", "Tool wear [min]"}

IdColumns == {"UDI", "uid", "UID"}

\* the machine-id column or a numeric column is missing, or a numeric value
\* does not parse
DefectiveTable(file) ==
    \/ \A col \in IdColumns : ~HasColumn(file, col)
    \/ \E col \in NumericColumns :
           \/ ~HasColumn(file, col)
           \/ IsNaN(ParseFloat(ValueIn(file, col)))

\* the step in which the read of reads[i] ends with the text loaded
LoadEnds(i) == reads' = RemoveAt(reads, i) /\ reads[i].readable

\* C9: ingestion of a table whose machine-id column or one of the five numeric
\* columns is missing, or whose value there does not parse as a number, sets
\* the CSV error, changes neither the form nor the registry, issues no call.
DefectiveTableRejected ==
    [][\A i \in 1..Len(reads) :
          (LoadEnds(i) /\ DefectiveTable(reads[i])) =>
              /\ csvError' # ""
              /\ form' = form
              /\ assets' = assets
              /\ inflight' = inflight]_vars

\* a table has just been rejected as unmappable while the form held a loaded
\* reading and the registry an Asset
WitnessTableRejected ==
    /\ lastOp = "csvRejected"
    /\ csvError = CsvMapMessage
    /\ form.uid = "1"
    /\ assets # <<>>

ValidProbability(x) == IsFinite(x) /\ 0 <= x.n /\ x.n <= x.d

\* a body with a valid failure_probability and a valid risk_level
WellFormed(data) ==
    /\ ValidProbability(data.failure_probability)
    /\ data.risk_level \in {"Green", "Yellow", "Red"}

\* the step in which a prediction call ends, whichever way
CallEnds == Len(inflight') < Len(inflight)

\* C11: a prediction call that ends in any way but with a well-formed result
\* (transport error, non-2xx response, success status with a malformed body)
\* ends with the error set, no result shown and the registry left as it was.
FailedCallEndsInError ==
    [][(CallEnds /\ ~WellFormed(result')) =>
          /\ error' = PredictionErrorMessage
          /\ result' = NoResult
          /\ assets' = assets]_vars

\* what does hold of failed calls: one that ends with the error set (the
\* call rejected) shows no result and leaves the registry as it was
RejectedCallEndsInError ==
    [][(CallEnds /\ error' # "") =>
          /\ error' = PredictionErrorMessage
          /\ result' = NoResult
          /\ assets' = assets]_vars

(***************************************************************************)
(* Properties of the derived features (checked under Spec)                 *)
(***************************************************************************)
\* the reading's rotational_speed_rpm * torque_nm is 0
ZeroPower(f) == JsMul(f.rotational_speed_rpm, f.torque_nm) = Num(0)

\* the step in which a submission starts
SubmitStarts == ~loading /\ loading'

\* C12: a submission of a reading whose rotational_speed_rpm * torque_nm is 0
\* issues exactly one call, whose payload holds power 0 and a temperature_power
\* that is not finite, and the error stays unset while that call is pending.
ZeroPowerSubmissionIsSent ==
    /\ [][(SubmitStarts /\ ZeroPower(form)) =>
             /\ Len(inflight') = Len(inflight) + 1
             /\ LET call == inflight'[Len(inflight')]
                IN  /\ call.form = form
                    /\ call.payload.power = Num(0)
                    /\ ~IsFinite(call.payload.temperature_power)
             /\ error' = ""]_vars
    /\ [](\A k \in 1..Len(inflight) :
             inflight[k].payload.power = Num(0) =>
                 /\ ~IsFinite(inflight[k].payload.temperature_power)
                 /\ error = "")

\* a call is pending for a reading with torque 0 while the registry holds an
\* Asset: its payload has power 0 and temperature_power +Infinity, no error
WitnessZeroPowerCallPending ==
    /\ Len(inflight) = 1
    /\ inflight[1].form.torque_nm = Num(0)
    /\ inflight[1].payload.power = Num(0)
    /\ inflight[1].payload.temperature_power = PosInfinity
    /\ loading
    /\ error = ""
    /\ assets # <<>>

(***************************************************************************)
(* Properties of when the registry changes (checked under SpecNav)         *)
(***************************************************************************)
\* the ids of the Assets of a registry
Ids(as) == {as[k].id : k \in 1..Len(as)}

AssetIsLastScoredReading ==
    inflight = <<>> =>
        /\ Ids(assets) = DOMAIN lastScored
        /\ \A k \in 1..Len(assets) :
               LET last == lastScored[assets[k].id]
               IN  /\ assets[k] = AssetOf(last.reading, last.data)
                   /\ assets[k].id = last.reading.uid
                   /\ assets[k].torque_nm = last.reading.torque_nm
                   /\ assets[k].risk_level = last.data.risk_level

\* an Asset has just been replaced by a call during which a table was loaded
\* into the form: the form holds machine "1", which no Asset is for
WitnessAssetOfCallWithCsvLoadedMeanwhile ==
    /\ inflight = <<>>
    /\ lastOp = "replaced"
    /\ form.uid = "1"
    /\ Len(assets) = 2
    /\ \A k \in 1..Len(assets) : assets[k].id # "1"

(***************************************************************************)
(* Properties of the loading flag (checked under SpecLive)                 *)
(***************************************************************************)
\* C15: loading is true exactly while a prediction call is outstanding: it
\* becomes true in the step that issues the call, no step but the end of the
\* call makes it false (there is no timeout), every end of a call, resolved or
\* rejected, makes it false, and, the transport layer answering in the end,
\* loading always becomes false again.
LoadingWhileCallOutstanding ==
    /\ [](loading <=> inflight # <<>>)
    /\ [][SubmitStarts <=> Len(inflight') > Len(inflight)]_vars
    /\ [][(loading /\ ~loading') => CallEnds]_vars
    /\ [][CallEnds => ~loading']_vars
    /\ (loading ~> ~loading)

\* a call for a registered machine has just been rejected: loading is false
\* again and the error is shown
WitnessLoadingResetByFailure ==
    /\ lastOp = "rejected"
    /\ ~loading
    /\ inflight = <<>>
    /\ error = PredictionErrorMessage
    /\ \E k \in 1..Len(assets) : assets[k].id = form.uid

====
